---- MODULE Spec2Model ----
(***************************************************************************)
(* Od11Client (custom_components/od11/websocket_client.py): the WebSocket  *)
(* client of the OD-11 speaker, as a state machine.                        *)
(*                                                                         *)
(* Python values are encoded so that every field keeps one TLA+ type:      *)
(*   Optional[x]   None is <<>>, a present value x is <<x>>                *)
(*   JSON scalar   [ty, n, s]: an integer n, or a string s                 *)
(*   JSON object   a record whose DOMAIN is the set of keys present        *)
(* One action is one run of a handler or public coroutine between two      *)
(* suspension points of the asyncio event loop.                            *)
(***************************************************************************)
EXTENDS Integers, Sequences, FiniteSets, TLC

VARIABLES
    ws,              \* self.ws: "none" (None), "open", "closed"
    task,            \* self._task, the _reader_loop task: "none", "running", "done"
    pinger,          \* self._pinger, the _ping_loop task: "none", "running", "done"
    orphans,         \* live _ping_loop tasks of earlier connections, no longer referenced
    stopped,         \* self._stopped (asyncio.Event)
    sid,             \* self.sid
    volume,          \* self.volume
    source_id,       \* self.source_id
    sources,         \* self.sources: the dict as its [id, name] items in insertion order
    mac, ssid, wifi_quality, revision,
    listeners,       \* self._listeners: sequence of callback kinds
    first_sent,      \* the first frame written to the current transport with ws.send_json
    pending,         \* a set_volume_absolute call suspended in wait_for: <<target>>, else <<>>
    last,            \* the last step: what ran, on what input, what it wrote and notified
    coord,           \* Od11Coordinator: its asyncio.Event, its refresh, its data
    server,          \* the speaker: the volume it holds and the echoes it has yet to deliver
    cli              \* od11_ws.py: the state dict of run()

vars == <<ws, task, pinger, orphans, stopped, sid, volume, source_id, sources, mac, ssid,
          wifi_quality, revision, listeners, first_sent, pending, last, coord, server, cli>>

\* what surrounds the client: the coordinator, the speaker, the command-line client
envVars == <<coord, server, cli>>

storeVars == <<sid, volume, source_id, sources, mac, ssid, wifi_quality, revision>>

----------------------------------------------------------------------------
(* Bounds of the model *)

MaxListeners == 2   \* registered listeners
MaxOrphans == 1     \* ping loops of earlier connections still asleep

----------------------------------------------------------------------------
(* Python / JSON values *)

None == <<>>
Some(x) == <<x>>
Val(o) == o[1]

JInt(n) == [ty |-> "int", n |-> n, s |-> ""]
JStr(s) == [ty |-> "str", n |-> 0, s |-> s]

\* int(x): the integer itself, or an exception (ValueError / TypeError)
PyIntOk(j) == j.ty = "int"
PyInt(j) == j.n

\* d.get(k) of a JSON object d, as an Optional
Get(d, k) == IF k \in DOMAIN d THEN Some(d[k]) ELSE None

Has(d, k, v) == k \in DOMAIN d /\ d[k] = v

----------------------------------------------------------------------------
(* Configuration of the client (const.py defaults, Od11Client.__init__) *)

DEFAULT_PROTOCOL_MAJOR == 0
DEFAULT_PROTOCOL_MINOR == 4
DEFAULT_COLOR_INDEX == 0
DEFAULT_NAME == "guest"
DEFAULT_UID == "uid-od11-ha"
DEFAULT_REALTIME == TRUE

\* _now_ms(): the clock is read as one fixed instant
NowMs == 1000

----------------------------------------------------------------------------
(* Outbound frames *)

GlobalJoinFrame ==
    [protocol_major_version |-> DEFAULT_PROTOCOL_MAJOR,
     protocol_minor_version |-> DEFAULT_PROTOCOL_MINOR,
     action |-> "global_join"]

GroupJoinFrame ==
    [color_index |-> DEFAULT_COLOR_INDEX,
     name |-> DEFAULT_NAME,
     realtime_data |-> DEFAULT_REALTIME,
     uid |-> DEFAULT_UID,
     action |-> "group_join"]

PingFrame(ts) == [action |-> "speaker_ping", value |-> ts]

SetInputFrame(source) == [action |-> "group_set_input_source", source |-> source]

ChangeVolumeFrame(amount) == [action |-> "group_change_volume", amount |-> amount]

\* obj.get("action", "").startswith("group_"), over the actions the client sends
StartsWithGroup(obj) ==
    /\ "action" \in DOMAIN obj
    /\ obj.action \in {"group_join", "group_set_input_source", "group_change_volume"}

\* a stamp that replaces a sid the message already carries
Stamp_Overwrite(obj, curSid) ==
    IF curSid # None /\ StartsWithGroup(obj)
    THEN [sid |-> Val(curSid)] @@ obj
    ELSE obj

\* _send, lines 204-205: the frame as it is handed to ws.send_json
Stamp(obj, curSid) ==
    IF curSid # None /\ "sid" \notin DOMAIN obj /\ StartsWithGroup(obj)
    THEN obj @@ [sid |-> Val(curSid)]
    ELSE obj

\* _send, lines 208-209: `assert self.ws is not None` fails without a transport,
\* and send_json on a closed transport raises; in both cases nothing is written.
SendRaises(w) == w # "open"

_send(obj, curSid, w) ==
    [raised |-> SendRaises(w),
     frames |-> IF SendRaises(w) THEN <<>> ELSE <<Stamp(obj, curSid)>>]

----------------------------------------------------------------------------
(* Live state *)

Store ==
    [sid |-> sid, volume |-> volume, source_id |-> source_id, sources |-> sources,
     mac |-> mac, ssid |-> ssid, wifi_quality |-> wifi_quality, revision |-> revision]

\* Od11Client.__init__, lines 63-73
InitStore ==
    [sid |-> None, volume |-> None, source_id |-> None, sources |-> <<>>,
     mac |-> None, ssid |-> None, wifi_quality |-> None, revision |-> None]

\* the loop of _emit_listeners leaving after its first callback
emit_listeners_FirstOnly(ls) == [i \in 1..Len(ls) |-> IF i = 1 THEN 1 ELSE 0]

\* the loop of _emit_listeners without its try/except: the first exception
\* raised by a callback leaves the loop
emit_listeners_NoCatch(ls) ==
    [i \in 1..Len(ls) |-> IF \E j \in 1..(i - 1) : ls[j] = "raises" THEN 0 ELSE 1]

\* _emit_listeners: one round; entry i is the number of times listener i was called.
\* A callback that raises is caught and the loop goes on.  Callbacks return
\* without suspending (as the coordinator's _notify does), so a round is not cut
\* short by a cancellation of the reader.
emit_listeners(ls) == [i \in 1..Len(ls) |-> 1]

----------------------------------------------------------------------------
(* Inbound messages: the text of a frame, by what json.loads makes of it *)

NoData == [nokeys |-> TRUE]
NonJson == [syntax |-> "garbage", data |-> NoData]     \* json.loads raises
JsonArray == [syntax |-> "array", data |-> NoData]     \* valid JSON, not an object
Obj(d) == [syntax |-> "object", data |-> d]

\* global_joined, lines 158-164: the speaker_added entries of the state list
RECURSIVE ScanSpeakerAdded(_, _)
ScanSpeakerAdded(items, st) ==
    IF items = <<>> THEN st
    ELSE LET item == Head(items)
             spk == IF "speaker" \in DOMAIN item THEN item.speaker ELSE NoData
             st1 == IF Has(item, "update", "speaker_added")
                    THEN [st EXCEPT !.revision = Get(spk, "revision"),
                                    !.wifi_quality = Get(spk, "wifi_quality")]
                    ELSE st
         IN ScanSpeakerAdded(Tail(items), st1)

\* group_joined, line 179: {int(s["id"]): str(s["name"]) for s in ...} raises
\* KeyError on an entry without id or name
SourcesOk(L) == \A i \in 1..Len(L) : {"id", "name"} \subseteq DOMAIN L[i]

\* d[k] = v on a dict kept as its items in insertion order
DictSet(d, k, v) ==
    IF \E i \in 1..Len(d) : d[i].id = k
    THEN [i \in 1..Len(d) |-> IF d[i].id = k THEN [id |-> k, name |-> v] ELSE d[i]]
    ELSE Append(d, [id |-> k, name |-> v])

RECURSIVE DictOf(_, _)
DictOf(L, d) ==
    IF L = <<>> THEN d
    ELSE DictOf(Tail(L), DictSet(d, Head(L).id, Head(L).name))

\* the sources of a group_joined added to the map instead of replacing it
NewSources_Merged(L, old) == DictOf(L, old)

\* group_joined, line 179: self.sources is assigned a new dict built from the frame
NewSources(L, old) == DictOf(L, <<>>)

\* group_joined, lines 181-185: the state list, entry by entry; int() of a value
\* that is no integer raises and leaves what was assigned so far
RECURSIVE ScanGroupState(_, _)
ScanGroupState(items, acc) ==
    IF items = <<>> \/ acc.crashed THEN acc
    ELSE LET item == Head(items)
             isVol == Has(item, "update", "group_volume_changed")
             isSrc == Has(item, "update", "group_input_source_changed")
             \* int(item.get("vol")): a missing vol is int(None), TypeError
             volOk == "vol" \in DOMAIN item /\ PyIntOk(item.vol)
             srcOk == "source" \in DOMAIN item /\ PyIntOk(item.source)
             a1 == IF isVol
                   THEN IF volOk
                        THEN [acc EXCEPT !.st.volume = Some(PyInt(item.vol))]
                        ELSE [acc EXCEPT !.crashed = TRUE]
                   ELSE acc
             a2 == IF isSrc /\ ~a1.crashed
                   THEN IF srcOk
                        THEN [a1 EXCEPT !.st.source_id = Some(PyInt(item.source))]
                        ELSE [a1 EXCEPT !.crashed = TRUE]
                   ELSE a1
         IN ScanGroupState(Tail(items), a2)

\* What one run of _handle_message does: the store it leaves, the frames it
\* writes, the notification rounds it runs, and whether an exception escapes it.
Outcome(st, frames, rounds, crashed) ==
    [st |-> st, frames |-> frames, rounds |-> rounds, crashed |-> crashed]

\* a global_joined that is recorded but not answered
on_global_joined_NoReply(data, st, w, ls) ==
    LET st1 == [st EXCEPT !.mac = Get(data, "mac"), !.ssid = Get(data, "ssid")]
        items == IF "state" \in DOMAIN data THEN data.state ELSE <<>>
    IN Outcome(ScanSpeakerAdded(items, st1), <<>>, <<>>, FALSE)

on_global_joined(data, st, w, ls) ==
    LET st1 == [st EXCEPT !.mac = Get(data, "mac"), !.ssid = Get(data, "ssid")]
        items == IF "state" \in DOMAIN data THEN data.state ELSE <<>>
        st2 == ScanSpeakerAdded(items, st1)
        snd == _send(GroupJoinFrame, st2.sid, w)
    IN Outcome(st2, snd.frames, <<>>, snd.raised)

on_group_joined(data, st, w, ls) ==
    LET st1 == [st EXCEPT !.sid = IF "sid" \in DOMAIN data THEN Some(data.sid) ELSE st.sid]
        L == IF "sources" \in DOMAIN data THEN data.sources ELSE <<>>
        st2 == [st1 EXCEPT !.sources = NewSources(L, st.sources)]
        items == IF "state" \in DOMAIN data THEN data.state ELSE <<>>
        scan == ScanGroupState(items, [st |-> st2, crashed |-> FALSE])
    IN IF ~SourcesOk(L) THEN Outcome(st1, <<>>, <<>>, TRUE)
       ELSE IF scan.crashed THEN Outcome(scan.st, <<>>, <<>>, TRUE)
       ELSE Outcome(scan.st, <<>>, <<emit_listeners(ls)>>, FALSE)

\* an update handler that notifies without storing the volume
on_update_KeepsVolume(data, st, w, ls) ==
    IF Has(data, "update", "group_volume_changed") /\ "vol" \in DOMAIN data
    THEN Outcome(st, <<>>, <<emit_listeners(ls)>>, FALSE)
    ELSE Outcome(st, <<>>, <<>>, FALSE)

on_update(data, st, w, ls) ==
    IF Has(data, "update", "group_volume_changed") /\ "vol" \in DOMAIN data
    THEN IF PyIntOk(data.vol)
         THEN Outcome([st EXCEPT !.volume = Some(PyInt(data.vol))], <<>>,
                      <<emit_listeners(ls)>>, FALSE)
         ELSE Outcome(st, <<>>, <<>>, TRUE)
    ELSE IF Has(data, "update", "group_input_source_changed") /\ "source" \in DOMAIN data
    THEN IF PyIntOk(data.source)
         THEN Outcome([st EXCEPT !.source_id = Some(PyInt(data.source))], <<>>,
                      <<emit_listeners(ls)>>, FALSE)
         ELSE Outcome(st, <<>>, <<>>, TRUE)
    ELSE Outcome(st, <<>>, <<>>, FALSE)

\* a json.loads failure that is not caught
handle_message_LoadsRaises(m, st, w, ls) ==
    IF m.syntax # "object" THEN Outcome(st, <<>>, <<>>, TRUE)
    ELSE IF Has(m.data, "response", "global_joined") THEN on_global_joined(m.data, st, w, ls)
    ELSE IF Has(m.data, "response", "group_joined") THEN on_group_joined(m.data, st, w, ls)
    ELSE IF Has(m.data, "response", "speaker_pong") THEN Outcome(st, <<>>, <<>>, FALSE)
    ELSE on_update(m.data, st, w, ls)

\* _handle_message(raw)
handle_message(m, st, w, ls) ==
    IF m.syntax = "garbage" THEN Outcome(st, <<>>, <<>>, FALSE)
    ELSE IF m.syntax # "object" THEN Outcome(st, <<>>, <<>>, TRUE)   \* data.get: AttributeError
    ELSE IF Has(m.data, "response", "global_joined") THEN on_global_joined(m.data, st, w, ls)
    ELSE IF Has(m.data, "response", "group_joined") THEN on_group_joined(m.data, st, w, ls)
    ELSE IF Has(m.data, "response", "speaker_pong") THEN Outcome(st, <<>>, <<>>, FALSE)
    ELSE on_update(m.data, st, w, ls)

----------------------------------------------------------------------------
(* Inputs: the frames the speaker sends and the arguments callers pass *)

SpeakerAdded == [update |-> "speaker_added", speaker |-> [revision |-> "r1", wifi_quality |-> 80]]
GlobalJoinedFull == Obj([response |-> "global_joined", mac |-> "m1", ssid |-> "s1",
                         state |-> <<SpeakerAdded>>])
GlobalJoinedBare == Obj([response |-> "global_joined"])
GlobalJoinedFrames == {GlobalJoinedFull, GlobalJoinedBare}

Entry(i, nm) == [id |-> i, name |-> nm]
VolItem(v) == [update |-> "group_volume_changed", vol |-> v]
SrcItem(x) == [update |-> "group_input_source_changed", source |-> x]

GroupJoined(s, L, S) == Obj([response |-> "group_joined", sid |-> s, sources |-> L, state |-> S])

SourcesA == <<Entry(0, "AirPlay"), Entry(5, "BT Speaker")>>
SourcesB == <<Entry(5, "Bluetooth")>>
GroupJoinedFrames ==
    {GroupJoined(1, SourcesA, <<>>),
     GroupJoined(2, SourcesB, <<SrcItem(JInt(0)), VolItem(JInt(30)), SrcItem(JInt(5)),
                                VolItem(JInt(0))>>),
     GroupJoined(2, SourcesB, <<VolItem(JInt(30))>>)}

\* malformed for the protocol: a source entry without id, a state entry whose vol is no integer
GroupJoinedNoId == GroupJoined(2, <<Entry(0, "AirPlay"), [name |-> "Optical"]>>, <<VolItem(JInt(30))>>)
GroupJoinedBadVol == GroupJoined(2, SourcesB, <<SrcItem(JInt(5)), VolItem(JStr("loud"))>>)

VolumeChanged(v) == Obj([update |-> "group_volume_changed", vol |-> v])
SourceChanged(x) == Obj([update |-> "group_input_source_changed", source |-> x])
UpdateFrames == {VolumeChanged(JInt(0)), VolumeChanged(JInt(30)), SourceChanged(JInt(5))}
VolumeChangedBad == VolumeChanged(JStr("loud"))
Pong == Obj([response |-> "speaker_pong", value |-> NowMs])

Inbound == GlobalJoinedFrames \cup GroupJoinedFrames \cup UpdateFrames
           \cup {GroupJoinedNoId, GroupJoinedBadVol, VolumeChangedBad, JsonArray, NonJson, Pong}

Targets == {-5, 25, 30, 130}        \* set_volume_absolute(target)
Amounts == {5}                      \* nudge_volume(amount)
SourceIds == {3}                    \* set_input(source_id)

----------------------------------------------------------------------------
(* The state machine.  self._last_ping_sent is written by _ping_loop and read  *)
(* nowhere; it is left out.                                                    *)

NoMsg == [syntax |-> "none", data |-> NoData]

\* Od11Coordinator before it exists: no event set, no refresh waiting, no data
NoCoordinator == [event |-> FALSE, wait |-> "none", data |-> None]

\* a speaker that is not looked at
NoServer == [on |-> FALSE, vol |-> 0, inbox |-> <<>>, echoes |-> <<>>, n |-> 0]

\* od11_ws.py not run
NoCli == [phase |-> "off"]

Step(op, m, n, frames, rounds, raised) ==
    [op |-> op, msg |-> m, n |-> n, frames |-> frames, rounds |-> rounds, raised |-> raised]

Init ==
    /\ ws = "none" /\ task = "none" /\ pinger = "none" /\ orphans = 0
    /\ stopped = FALSE
    /\ sid = None /\ volume = None /\ source_id = None /\ sources = <<>>
    /\ mac = None /\ ssid = None /\ wifi_quality = None /\ revision = None
    /\ listeners = <<>>
    /\ first_sent = None
    /\ pending = None
    /\ last = Step("init", NoMsg, 0, <<>>, <<>>, FALSE)
    /\ coord = NoCoordinator /\ server = NoServer /\ cli = NoCli

SetStore(st) ==
    /\ sid' = st.sid /\ volume' = st.volume /\ source_id' = st.source_id
    /\ sources' = st.sources /\ mac' = st.mac /\ ssid' = st.ssid
    /\ wifi_quality' = st.wifi_quality /\ revision' = st.revision

\* ws.send_json: the transport keeps the first frame written to it
Write(frames) ==
    first_sent' = IF first_sent = None /\ frames # <<>> THEN Some(frames[1]) ELSE first_sent

\* ws.send_json seen from the speaker: the amounts of the group_change_volume
\* frames written reach it in the order they were written
Carry(srv, frames) ==
    LET vs == SelectSeq(frames, LAMBDA f : Has(f, "action", "group_change_volume"))
    IN IF srv.on
       THEN [srv EXCEPT !.inbox = @ \o [i \in 1..Len(vs) |-> vs[i].amount],
                        !.n = @ + Len(vs)]
       ELSE srv

\* the frame the reader gets is the oldest one the speaker has sent
Taken(srv, m) ==
    IF srv.on /\ srv.echoes # <<>> /\ Head(srv.echoes) = m
    THEN [srv EXCEPT !.echoes = Tail(@)]
    ELSE srv

\* add_listener(cb); kind tells a callback that returns ("ok") from one that raises
add_listener(kind) ==
    /\ Len(listeners) < MaxListeners
    /\ listeners' = Append(listeners, kind)
    /\ last' = Step("add_listener", NoMsg, 0, <<>>, <<>>, FALSE)
    /\ UNCHANGED <<envVars, ws, task, pinger, orphans, stopped, storeVars, first_sent, pending>>

\* a connect() that starts the loops and leaves the handshake unsent
connect_NoGlobalJoin ==
    /\ ws # "open"
    /\ pinger = "running" => orphans < MaxOrphans
    /\ ws' = "open"
    /\ task' = "running"
    /\ pinger' = IF stopped THEN "done" ELSE "running"
    /\ orphans' = IF pinger = "running" THEN orphans + 1 ELSE orphans
    /\ first_sent' = None
    /\ last' = Step("connect", NoMsg, 0, <<>>, <<>>, FALSE)
    /\ UNCHANGED <<envVars, stopped, storeVars, listeners, pending>>

\* connect(): a new transport, the two loops, and the global_join, with no
\* suspension point between ws_connect returning and send_json being called.
\* It is called on a client that has no open transport.
\* a connect() that forgets the sid of the session before
connect_ResetsSid ==
    /\ ws # "open"
    /\ pinger = "running" => orphans < MaxOrphans
    /\ LET snd == _send(GlobalJoinFrame, None, "open")
       IN /\ ws' = "open"
          /\ task' = "running"
          /\ pinger' = IF stopped THEN "done" ELSE "running"
          /\ orphans' = IF pinger = "running" THEN orphans + 1 ELSE orphans
          /\ first_sent' = IF snd.frames # <<>> THEN Some(snd.frames[1]) ELSE None
          /\ last' = Step("connect", NoMsg, 0, snd.frames, <<>>, snd.raised)
    /\ sid' = None
    /\ UNCHANGED <<envVars, stopped, volume, source_id, sources, mac, ssid, wifi_quality,
                   revision, listeners, pending>>

connect ==
    /\ ws # "open"
    /\ pinger = "running" => orphans < MaxOrphans
    /\ LET snd == _send(GlobalJoinFrame, sid, "open")
       IN /\ ws' = "open"
          /\ task' = "running"
          \* a _ping_loop started with the stop flag set leaves its while at once
          /\ pinger' = IF stopped THEN "done" ELSE "running"
          /\ orphans' = IF pinger = "running" THEN orphans + 1 ELSE orphans
          /\ first_sent' = IF snd.frames # <<>> THEN Some(snd.frames[1]) ELSE None
          /\ last' = Step("connect", NoMsg, 0, snd.frames, <<>>, snd.raised)
    /\ UNCHANGED <<envVars, stopped, storeVars, listeners, pending>>

\* a close() that sets the flag and closes the transport but cancels no task
close_NoCancel ==
    /\ stopped' = TRUE
    /\ ws' = IF ws = "open" THEN "closed" ELSE ws
    /\ last' = Step("close", NoMsg, 0, <<>>, <<>>, FALSE)
    /\ UNCHANGED <<envVars, task, pinger, orphans, storeVars, listeners, first_sent, pending>>

\* close()
close ==
    /\ stopped' = TRUE
    /\ pinger' = IF pinger = "running" THEN "done" ELSE pinger
    /\ task' = IF task = "running" THEN "done" ELSE task
    /\ ws' = IF ws = "open" THEN "closed" ELSE ws
    /\ last' = Step("close", NoMsg, 0, <<>>, <<>>, FALSE)
    /\ UNCHANGED <<envVars, orphans, storeVars, listeners, first_sent, pending>>

\* _reader_loop: the transport delivers CLOSE / CLOSED, or an ERROR message
transport_lost ==
    /\ ws = "open" /\ task = "running"
    /\ ws' = "closed"
    /\ task' = "done"
    /\ last' = Step("transport_lost", NoMsg, 0, <<>>, <<>>, FALSE)
    /\ UNCHANGED <<envVars, pinger, orphans, stopped, storeVars, listeners, first_sent, pending>>

\* _reader_loop: one TEXT message, handled by _handle_message; an exception
\* that escapes the handler ends the loop ("WS reader crashed")
recv(m) ==
    /\ ws = "open" /\ task = "running"
    /\ LET r == handle_message(m, Store, ws, listeners)
       IN /\ SetStore(r.st)
          /\ Write(r.frames)
          /\ task' = IF r.crashed THEN "done" ELSE task
          /\ last' = Step("recv", m, 0, r.frames, r.rounds, r.crashed)
          \* the coordinator's listener, called in the round: self._event.set()
          /\ coord' = IF r.rounds # <<>> /\ (\E i \in DOMAIN listeners : listeners[i] = "coord")
                      THEN [coord EXCEPT !.event = TRUE]
                      ELSE coord
          /\ server' = Carry(Taken(server, m), r.frames)
    /\ UNCHANGED <<cli, ws, pinger, orphans, stopped, listeners, pending>>

\* a _ping_loop that goes back to sleep when it finds the transport gone
ping_tick_KeepsSleeping(who) ==
    /\ who = "pinger" => pinger = "running"
    /\ who = "orphan" => orphans > 0
    /\ LET dead == ws # "open"
           snd == IF dead THEN [raised |-> FALSE, frames |-> <<>>]
                  ELSE _send(PingFrame(NowMs), sid, ws)
           exits == stopped
       IN /\ Write(snd.frames)
          /\ pinger' = IF who = "pinger" /\ exits THEN "done" ELSE pinger
          /\ orphans' = IF who = "orphan" /\ exits THEN orphans - 1 ELSE orphans
          /\ last' = Step("ping_tick", NoMsg, 0, snd.frames, <<>>, FALSE)
    /\ UNCHANGED <<envVars, ws, task, stopped, storeVars, listeners, pending>>

\* _ping_loop, one turn after the sleep, of self._pinger (who = "pinger") or of
\* the loop of an earlier connection (who = "orphan")
ping_tick(who) ==
    /\ who = "pinger" => pinger = "running"
    /\ who = "orphan" => orphans > 0
    /\ LET dead == ws # "open"                    \* self.ws is None or self.ws.closed: break
           snd == IF dead THEN [raised |-> FALSE, frames |-> <<>>]
                  ELSE _send(PingFrame(NowMs), sid, ws)
           exits == dead \/ stopped               \* or the while condition after the ping
       IN /\ Write(snd.frames)
          /\ pinger' = IF who = "pinger" /\ exits THEN "done" ELSE pinger
          /\ orphans' = IF who = "orphan" /\ exits THEN orphans - 1 ELSE orphans
          /\ last' = Step("ping_tick", NoMsg, 0, snd.frames, <<>>, FALSE)
    /\ UNCHANGED <<envVars, ws, task, stopped, storeVars, listeners, pending>>

\* set_input(source_id)
set_input(source) ==
    /\ LET snd == _send(SetInputFrame(source), sid, ws)
       IN /\ Write(snd.frames)
          /\ last' = Step("set_input", NoMsg, source, snd.frames, <<>>, snd.raised)
    /\ UNCHANGED <<envVars, ws, task, pinger, orphans, stopped, storeVars, listeners, pending>>

\* a nudge_volume that also books the new volume in the store
nudge_volume_Optimistic(amount) ==
    /\ LET snd == _send(ChangeVolumeFrame(amount), sid, ws)
       IN /\ Write(snd.frames)
          /\ last' = Step("nudge_volume", NoMsg, amount, snd.frames, <<>>, snd.raised)
    /\ volume' = IF volume # None THEN Some(Val(volume) + amount) ELSE volume
    /\ UNCHANGED <<envVars, ws, task, pinger, orphans, stopped, sid, source_id, sources, mac, ssid,
                   wifi_quality, revision, listeners, pending>>

\* nudge_volume(amount)
nudge_volume(amount) ==
    /\ LET snd == _send(ChangeVolumeFrame(amount), sid, ws)
       IN /\ Write(snd.frames)
          /\ server' = Carry(server, snd.frames)
          /\ last' = Step("nudge_volume", NoMsg, amount, snd.frames, <<>>, snd.raised)
    /\ UNCHANGED <<coord, cli, ws, task, pinger, orphans, stopped, storeVars, listeners, pending>>

\* the clamp without its upper limit
Clamp_NoUpper(target) == IF target < 0 THEN 0 ELSE target

Max(a, b) == IF a >= b THEN a ELSE b
Min(a, b) == IF a <= b THEN a ELSE b

\* set_volume_absolute, line 221: max(0, min(100, int(target)))
Clamp(target) == Max(0, Min(100, target))

\* the delta always taken from a baseline of 0
Delta_FromZero(target, vol) == Clamp(target)

\* set_volume_absolute, lines 228-229
Delta(target, vol) == Clamp(target) - (IF vol # None THEN Val(vol) ELSE 0)

\* set_volume_absolute, lines 230-231: the nudge, if any
NudgeFor(target, vol, curSid, w) ==
    IF Delta(target, vol) # 0
    THEN _send(ChangeVolumeFrame(Delta(target, vol)), curSid, w)
    ELSE [raised |-> FALSE, frames |-> <<>>]

\* set_volume_absolute(target). With a known volume it runs to the send without
\* a suspension point. With an unknown volume it first awaits
\* wait_for(self._stopped.wait(), timeout=0.0), which hands control to the event
\* loop once: the call is suspended and other tasks run before it goes on.
set_volume_absolute(target) ==
    /\ pending = None
    /\ IF volume # None
       THEN LET snd == NudgeFor(target, volume, sid, ws)
            IN /\ Write(snd.frames)
               /\ server' = Carry(server, snd.frames)
               /\ pending' = pending
               /\ last' = Step("set_volume_absolute", NoMsg, target, snd.frames, <<>>, snd.raised)
       ELSE /\ pending' = Some(target)
            /\ first_sent' = first_sent
            /\ server' = server
            /\ last' = Step("set_volume_absolute", NoMsg, target, <<>>, <<>>, FALSE)
    /\ UNCHANGED <<coord, cli, ws, task, pinger, orphans, stopped, storeVars, listeners>>

\* set_volume_absolute, lines 226-231, after the wait_for has returned
set_volume_absolute_resume ==
    /\ pending # None
    /\ LET snd == NudgeFor(Val(pending), volume, sid, ws)
       IN /\ Write(snd.frames)
          /\ server' = Carry(server, snd.frames)
          /\ last' = Step("set_volume_absolute_resume", NoMsg, Val(pending), snd.frames,
                          <<>>, snd.raised)
    /\ pending' = None
    /\ UNCHANGED <<coord, cli, ws, task, pinger, orphans, stopped, storeVars, listeners>>

Next ==
    \/ add_listener("ok")
    \/ connect
    \/ close
    \/ transport_lost
    \/ \E m \in Inbound : recv(m)
    \/ \E who \in {"pinger", "orphan"} : ping_tick(who)
    \/ \E x \in SourceIds : set_input(x)
    \/ \E a \in Amounts : nudge_volume(a)
    \/ \E t \in Targets : set_volume_absolute(t)
    \/ set_volume_absolute_resume

Spec == Init /\ [][Next]_vars

----------------------------------------------------------------------------
(* The client with listeners that return and listeners that raise an Exception *)

InboundNotify ==
    {GlobalJoinedFull, GroupJoined(1, SourcesA, <<>>), VolumeChanged(JInt(30)),
     SourceChanged(JInt(5)), NonJson}

NextListeners ==
    \/ \E kind \in {"ok", "raises"} : add_listener(kind)
    \/ connect
    \/ close
    \/ \E m \in InboundNotify : recv(m)

SpecListeners == Init /\ [][NextListeners]_vars

----------------------------------------------------------------------------
(* _send called with messages of every outbound shape, with and without a sid *)
(* of the caller's own                                                        *)

CallerSids == {1, 9}

OutboundShapes ==
    {GlobalJoinFrame, GroupJoinFrame, PingFrame(NowMs), [value |-> NowMs]}
    \cup {SetInputFrame(x) : x \in 0..5}
    \cup {ChangeVolumeFrame(a) : a \in {-5, 5, 30}}

CallerFrames == OutboundShapes \cup {obj @@ [sid |-> c] : obj \in OutboundShapes, c \in CallerSids}

\* _send(obj)
send_message(obj) ==
    /\ LET snd == _send(obj, sid, ws)
       IN /\ Write(snd.frames)
          /\ last' = [obj |-> obj] @@ Step("_send", NoMsg, 0, snd.frames, <<>>, snd.raised)
    /\ UNCHANGED <<envVars, ws, task, pinger, orphans, stopped, storeVars, listeners, pending>>

NextSend ==
    \/ connect
    \/ close
    \/ \E m \in GroupJoinedFrames : recv(m)
    \/ ping_tick("pinger")
    \/ \E x \in SourceIds : set_input(x)
    \/ \E a \in Amounts : nudge_volume(a)
    \/ \E obj \in CallerFrames : send_message(obj)

SpecSend == Init /\ [][NextSend]_vars

----------------------------------------------------------------------------
(* The life of a connection through the phases of the handshake.  A _ping_loop *)
(* that is asleep in asyncio.sleep(self._keepalive) is woken by the event loop *)
(* when the interval is over: its next turn is taken eventually.               *)

InboundHandshake == {GlobalJoinedFull, GroupJoined(1, SourcesA, <<>>), VolumeChanged(JInt(30))}

NextLifecycle ==
    \/ connect
    \/ close
    \/ transport_lost
    \/ \E m \in InboundHandshake : recv(m)
    \/ \E who \in {"pinger", "orphan"} : ping_tick(who)
    \/ \E x \in SourceIds : set_input(x)

SpecLifecycle ==
    /\ Init /\ [][NextLifecycle]_vars
    /\ WF_vars(ping_tick("pinger"))
    /\ WF_vars(ping_tick("orphan"))

----------------------------------------------------------------------------
(* resolve_source_to_id (select.py) and its tables (const.py).  A Python str  *)
(* is the sequence of its characters; the characters are ASCII.               *)

DigitChars == <<"0", "1", "2", "3", "4", "5", "6", "7", "8", "9">>
LowerChars == <<"a", "b", "c", "d", "e", "f", "g", "h", "i", "j", "k", "l", "m", "n", "o", "p", "q", "r", "s", "t", "u", "v", "w", "x", "y", "z">>
UpperChars == <<"A", "B", "C", "D", "E", "F", "G", "H", "I", "J", "K", "L", "M", "N", "O", "P", "Q", "R", "S", "T", "U", "V", "W", "X", "Y", "Z">>

Range(f) == {f[i] : i \in DOMAIN f}

\* ch.lower()
Lower(ch) ==
    IF ch \in Range(UpperChars)
    THEN LowerChars[CHOOSE i \in DOMAIN UpperChars : UpperChars[i] = ch]
    ELSE ch

\* ch.isalnum()
IsAlnum(ch) == ch \in Range(DigitChars) \cup Range(LowerChars) \cup Range(UpperChars)

\* _simplify(s): "".join(ch for ch in s.lower() if ch.isalnum())
_simplify(s) == SelectSeq([i \in 1..Len(s) |-> Lower(s[i])], IsAlnum)

\* a test that takes no token for a number
isdigit_Never(s) == FALSE

\* s.isdigit(): at least one character, all of them digits
isdigit(s) == s # <<>> /\ \A i \in 1..Len(s) : s[i] \in Range(DigitChars)

DigitVal(ch) == (CHOOSE i \in DOMAIN DigitChars : DigitChars[i] = ch) - 1

\* int(s) of a string of digits
RECURSIVE IntOfDigits(_)
IntOfDigits(s) ==
    IF s = <<>> THEN 0
    ELSE 10 * IntOfDigits(SubSeq(s, 1, Len(s) - 1)) + DigitVal(s[Len(s)])

\* s.startswith(c)
startswith(s, c) == Len(c) <= Len(s) /\ SubSeq(s, 1, Len(c)) = c

\* c in s
contains(s, c) == \E i \in 0..(Len(s) - Len(c)) : SubSeq(s, i + 1, i + Len(c)) = c

W_airplay == <<"a", "i", "r", "p", "l", "a", "y">>
W_spotify == <<"s", "p", "o", "t", "i", "f", "y">>
W_playlist == <<"p", "l", "a", "y", "l", "i", "s", "t">>
W_linein == <<"l", "i", "n", "e", "i", "n">>
W_optical == <<"o", "p", "t", "i", "c", "a", "l">>
W_bluetooth == <<"b", "l", "u", "e", "t", "o", "o", "t", "h">>

\* const.py, CANONICAL_SOURCES
CANONICAL_SOURCES ==
    <<[k |-> W_airplay, v |-> 0],
      [k |-> W_spotify, v |-> 1],
      [k |-> W_playlist, v |-> 2],
      [k |-> W_linein, v |-> 3],
      [k |-> W_optical, v |-> 4],
      [k |-> W_bluetooth, v |-> 5]>>

\* a table without any alias
SOURCE_ALIASES_None == <<>>

\* const.py, SOURCE_ALIASES
SOURCE_ALIASES ==
    <<[k |-> <<"b">>, v |-> W_bluetooth],
      [k |-> <<"b", "t">>, v |-> W_bluetooth],
      [k |-> <<"b", "l", "u", "e">>, v |-> W_bluetooth],
      [k |-> <<"o">>, v |-> W_optical],
      [k |-> <<"o", "p", "t">>, v |-> W_optical],
      [k |-> <<"l">>, v |-> W_linein],
      [k |-> <<"l", "i">>, v |-> W_linein],
      [k |-> <<"l", "i", "n", "e">>, v |-> W_linein],
      [k |-> <<"s">>, v |-> W_spotify],
      [k |-> <<"s", "p">>, v |-> W_spotify],
      [k |-> <<"s", "p", "o", "t">>, v |-> W_spotify],
      [k |-> <<"a">>, v |-> W_airplay],
      [k |-> <<"a", "p">>, v |-> W_airplay],
      [k |-> <<"a", "i", "r">>, v |-> W_airplay],
      [k |-> <<"p">>, v |-> W_playlist],
      [k |-> <<"p", "l">>, v |-> W_playlist]>>

\* table.get(key, default) and key in table, for a table kept as its items
TableHas(table, key) == \E i \in DOMAIN table : table[i].k = key
TableGet(table, key, default) ==
    IF TableHas(table, key)
    THEN table[CHOOSE i \in DOMAIN table : table[i].k = key].v
    ELSE default

\* the first index of a non-empty set of indices: where a for loop returns
FirstOf(I) == CHOOSE i \in I : \A j \in I : i <= j

\* a resolver whose first loop finds nothing
ExactMatches_None(srcs, canon) == {}

\* line 31: the entries whose simplified name equals the target
ExactMatches(srcs, canon) == {i \in DOMAIN srcs : _simplify(srcs[i].name) = canon}

\* a friendly pass that takes no empty target
FriendlyMatches_NonEmpty(srcs, canon) ==
    {i \in DOMAIN srcs : /\ canon # <<>>
                         /\ contains(_simplify(srcs[i].name), canon)}

\* line 37: the entries whose simplified name starts with or contains the target
FriendlyMatches(srcs, canon) ==
    {i \in DOMAIN srcs : \/ startswith(_simplify(srcs[i].name), canon)
                         \/ contains(_simplify(srcs[i].name), canon)}

Resolved(id, via) == [ok |-> TRUE, id |-> id, via |-> via]

\* a resolver that asks the canonical table before the live map
resolve_source_to_id_CanonicalFirst(srcs, query) ==
    LET simp == _simplify(query)
        canon == TableGet(SOURCE_ALIASES, simp, simp)
        exact == ExactMatches(srcs, canon)
        friendly == FriendlyMatches(srcs, canon)
    IN IF isdigit(simp) THEN Resolved(IntOfDigits(simp), "numeric")
       ELSE IF TableHas(CANONICAL_SOURCES, canon)
            THEN Resolved(TableGet(CANONICAL_SOURCES, canon, -1), "canonical")
       ELSE IF exact # {} THEN Resolved(srcs[FirstOf(exact)].id, "exact")
       ELSE IF friendly # {} THEN Resolved(srcs[FirstOf(friendly)].id, "friendly")
       ELSE [ok |-> FALSE, id |-> -1, via |-> "ValueError"]

\* resolve_source_to_id(coord, query), with srcs the items of
\* coord.data["sources"] in the dict's iteration order.  via names the return
\* statement that was reached; ok = FALSE is the ValueError of line 44.
resolve_source_to_id(srcs, query) ==
    LET simp == _simplify(query)
        canon == TableGet(SOURCE_ALIASES, simp, simp)
        exact == ExactMatches(srcs, canon)
        friendly == FriendlyMatches(srcs, canon)
    IN IF isdigit(simp) THEN Resolved(IntOfDigits(simp), "numeric")
       ELSE IF exact # {} THEN Resolved(srcs[FirstOf(exact)].id, "exact")
       ELSE IF friendly # {} THEN Resolved(srcs[FirstOf(friendly)].id, "friendly")
       ELSE IF TableHas(CANONICAL_SOURCES, canon)
            THEN Resolved(TableGet(CANONICAL_SOURCES, canon, -1), "canonical")
       ELSE [ok |-> FALSE, id |-> -1, via |-> "ValueError"]

----------------------------------------------------------------------------
(* resolve_source_to_id applied to tokens, against the source maps a          *)
(* coordinator snapshot can hold                                              *)

N_AirPlay == <<"A", "i", "r", "P", "l", "a", "y">>
N_BTSpeaker == <<"B", "T", " ", "S", "p", "e", "a", "k", "e", "r">>
N_Bluetooth == <<"B", "l", "u", "e", "t", "o", "o", "t", "h">>
N_Bluetooth2 == <<"B", "l", "u", "e", "t", "o", "o", "t", "h", " ", "2">>
N_Line3 == <<"L", "i", "n", "e", " ", "3">>
N_LineIn == <<"L", "i", "n", "e", " ", "I", "n">>
N_MyBluetooth == <<"M", "y", " ", "B", "l", "u", "e", "t", "o", "o", "t", "h">>
N_OD11 == <<"O", "D", "-", "1", "1">>
N_Optical == <<"O", "p", "t", "i", "c", "a", "l">>
N_Dash == <<"-">>

LiveMaps ==
    {<<>>,
     <<Entry(0, N_AirPlay), Entry(5, N_BTSpeaker)>>,
     <<Entry(7, N_Bluetooth)>>,
     <<Entry(1, N_MyBluetooth), Entry(2, N_Bluetooth2)>>,
     <<Entry(2, N_Bluetooth2), Entry(1, N_MyBluetooth)>>,
     <<Entry(1, N_Bluetooth2), Entry(2, N_MyBluetooth), Entry(3, N_Bluetooth)>>,
     <<Entry(4, N_Line3), Entry(7, N_OD11)>>,
     <<Entry(3, N_LineIn), Entry(4, N_Optical)>>,
     <<Entry(3, N_LineIn), Entry(9, N_Dash)>>}

Tokens ==
    {<<"b", "t">>,
     <<"B", "T">>,
     <<"b", "l", "u", "e", "t", "o", "o", "t", "h">>,
     <<"B", "l", "u", "e", "t", "o", "o", "t", "h">>,
     <<"B", "l", "u", "e", "-", "t", "o", "o", "t", "h">>,
     <<"b", "l", "u", "e">>,
     <<"x", "y", "z">>,
     <<"o", "p", "t">>,
     <<"l", "i", "n", "e">>,
     <<"m", "y">>,
     <<"o", "d">>,
     <<"s", "p", "e", "a", "k", "e", "r">>,
     <<"b">>,
     <<"l">>,
     <<"3">>,
     <<" ", "3">>,
     <<"1", "1">>,
     <<"#", "1", "1">>,
     <<"0", "0", "7">>,
     <<"3", "a">>,
     <<>>,
     <<"-", "-">>,
     <<"a", "i", "r", " ", "p", "l", "a", "y">>}

\* the coordinator has registered its listener with the client
HasCoordinator == \E i \in DOMAIN listeners : listeners[i] = "coord"

\* the dict _async_update_data returns: the client's fields at that moment
Snapshot == Store

\* select.py lines 18-19: (coord.data or {}).get("sources") or {}
CoordSources == IF coord.data = None THEN <<>> ELSE Val(coord.data).sources

\* a client that has handled a group_joined with the map (none for the empty
\* map), and a coordinator whose last refresh returned after that
InitResolve ==
    /\ sources \in LiveMaps
    /\ sid = IF sources = <<>> THEN None ELSE Some(1)
    /\ ws = "open" /\ task = "running" /\ pinger = "running" /\ orphans = 0
    /\ stopped = FALSE
    /\ volume = None /\ source_id = None
    /\ mac = None /\ ssid = None /\ wifi_quality = None /\ revision = None
    /\ listeners = <<"coord">>
    /\ first_sent = Some(GlobalJoinFrame)
    /\ pending = None
    /\ last = Step("init", NoMsg, 0, <<>>, <<>>, FALSE)
    /\ coord = [NoCoordinator EXCEPT !.data = Some(Snapshot)]
    /\ server = NoServer /\ cli = NoCli

\* resolve_source_to_id(coord, query)
resolve(query) ==
    /\ last' = [op |-> "resolve", query |-> query, res |-> resolve_source_to_id(CoordSources, query)]
    /\ UNCHANGED <<envVars, ws, task, pinger, orphans, stopped, storeVars, listeners, first_sent, pending>>

NextResolve == \E q \in Tokens : resolve(q)

SpecResolve == InitResolve /\ [][NextResolve]_vars

----------------------------------------------------------------------------
(* The set-input services of __init__.py: the token is resolved against the   *)
(* coordinator's data, then the client is told the ID                         *)

\* s.strip(), the white space being the blank
RECURSIVE strip(_)
strip(s) ==
    IF s = <<>> THEN s
    ELSE IF Head(s) = " " THEN strip(Tail(s))
    ELSE IF s[Len(s)] = " " THEN strip(SubSeq(s, 1, Len(s) - 1))
    ELSE s

\* s.lower()
lower(s) == [i \in 1..Len(s) |-> Lower(s[i])]

\* a service that sends the command whatever the resolver said
SetInputService_SendsAnyway(op, source, query) ==
    LET res == resolve_source_to_id(CoordSources, query)
        snd == _send(SetInputFrame(res.id), sid, ws)
    IN /\ Write(snd.frames)
       /\ last' = [op |-> op, source |-> source, query |-> query, map |-> CoordSources,
                   res |-> res, frames |-> snd.frames, raised |-> ~res.ok,
                   error |-> IF res.ok THEN None ELSE Some(query)]
       /\ UNCHANGED <<envVars, ws, task, pinger, orphans, stopped, storeVars, listeners, pending>>

\* lines 75-76 and 81-82: src_id = resolve_source_to_id(coord, query), then
\* client.set_input(src_id).  The ValueError of the resolver leaves the service
\* before set_input; its message shows the query the resolver was given.
SetInputService(op, source, query) ==
    LET res == resolve_source_to_id(CoordSources, query)
        snd == IF res.ok THEN _send(SetInputFrame(res.id), sid, ws)
                         ELSE [frames |-> <<>>, raised |-> TRUE]
    IN /\ Write(snd.frames)
       /\ last' = [op |-> op, source |-> source, query |-> query, map |-> CoordSources,
                   res |-> res, frames |-> snd.frames, raised |-> snd.raised,
                   error |-> IF res.ok THEN None ELSE Some(query)]
       /\ UNCHANGED <<envVars, ws, task, pinger, orphans, stopped, storeVars, listeners, pending>>

\* svc_set_input, lines 73-77
svc_set_input(source) == SetInputService("svc_set_input", source, lower(strip(source)))

\* _svc_set_input_key, lines 80-83, registered for each key of CANONICAL_SOURCES
_svc_set_input_key(key) == SetInputService("_svc_set_input_key", key, key)

T_XYZ == <<" ", "X", "Y", "Z", " ">>
T_XY_Z == <<"x", "y", "-", "z">>

\* call.data["source"]
ServiceSources == Tokens \cup {T_XYZ, T_XY_Z}

CanonicalKeys == {CANONICAL_SOURCES[i].k : i \in DOMAIN CANONICAL_SOURCES}

NextService ==
    \/ \E source \in ServiceSources : svc_set_input(source)
    \/ \E key \in CanonicalKeys : _svc_set_input_key(key)

SpecService == InitResolve /\ [][NextService]_vars

----------------------------------------------------------------------------
(* Od11Coordinator (coordinator.py): its refresh waits for the client's       *)
(* listener notification, at most 5.0 s, and returns the client's fields      *)

\* Od11Coordinator.__init__, lines 18-24: client.add_listener(lambda: self._notify())
coordinator_init == ~HasCoordinator /\ add_listener("coord")

\* _async_update_data, lines 29-34: the event is cleared and
\* the wait begins.  Refreshes of one coordinator do not overlap.
_async_update_data ==
    /\ HasCoordinator /\ coord.wait = "none"
    /\ coord' = [coord EXCEPT !.event = FALSE, !.wait = "waiting"]
    /\ last' = Step("refresh", NoMsg, 0, <<>>, <<>>, FALSE)
    /\ UNCHANGED <<server, cli, ws, task, pinger, orphans, stopped, storeVars, listeners,
                   first_sent, pending>>

\* lines 38-47: the snapshot is returned and becomes coord.data
refresh_return(op) ==
    /\ coord' = [coord EXCEPT !.wait = "none", !.data = Some(Snapshot)]
    /\ last' = Step(op, NoMsg, 0, <<>>, <<>>, FALSE)
    /\ UNCHANGED <<server, cli, ws, task, pinger, orphans, stopped, storeVars, listeners,
                   first_sent, pending>>

\* a refresh that waits for the event only: no ceiling
refresh_timeout_Never == FALSE /\ refresh_return("refresh_timeout")

\* line 34: the event was set after the refresh began, the wait is over
refresh_notified == coord.wait = "waiting" /\ coord.event /\ refresh_return("refresh_notified")

\* lines 34-36: 5.0 s have passed without the event, asyncio.TimeoutError is caught
refresh_timeout == coord.wait = "waiting" /\ ~coord.event /\ refresh_return("refresh_timeout")

MapLineOptical == <<Entry(3, N_LineIn), Entry(4, N_Optical)>>

InboundCoordinator ==
    {GlobalJoinedFull,
     GroupJoined(1, <<Entry(7, N_Bluetooth)>>, <<VolItem(JInt(30))>>),
     GroupJoined(2, MapLineOptical, <<>>),
     VolumeChanged(JInt(30))}

T_line == <<"l", "i", "n", "e">>

CoordinatorSources == {W_bluetooth, T_line}

NextCoordinator ==
    \/ connect
    \/ close
    \/ transport_lost
    \/ coordinator_init
    \/ \E m \in InboundCoordinator : recv(m)
    \/ _async_update_data
    \/ refresh_notified
    \/ refresh_timeout
    \* the services are registered once the first refresh has returned
    \/ \E source \in CoordinatorSources : coord.data # None /\ svc_set_input(source)

\* the event loop runs a refresh whose event is set, and its timer fires
SpecCoordinator ==
    /\ Init /\ [][NextCoordinator]_vars
    /\ WF_vars(refresh_notified)
    /\ WF_vars(refresh_timeout)

----------------------------------------------------------------------------
(* The client and a speaker that holds the volume, adds the amount of each    *)
(* group_change_volume it receives and sends the sum as group_volume_changed  *)

MaxCommands == 3

ServerVolumes == {0, 30, 100}

\* a joined client whose store has the speaker's volume
InitVolume ==
    /\ ws = "open" /\ task = "running" /\ pinger = "running" /\ orphans = 0
    /\ stopped = FALSE
    /\ sid = Some(1) /\ source_id = None /\ sources = <<>>
    /\ mac = None /\ ssid = None /\ wifi_quality = None /\ revision = None
    /\ listeners = <<>>
    /\ first_sent = Some(GlobalJoinFrame)
    /\ pending = None
    /\ last = Step("init", NoMsg, 0, <<>>, <<>>, FALSE)
    /\ coord = NoCoordinator /\ cli = NoCli
    /\ \E s \in ServerVolumes :
          /\ volume = Some(s)
          /\ server = [NoServer EXCEPT !.on = TRUE, !.vol = s]

\* the speaker takes the oldest amount, adds it, and sends the new volume
speaker_apply ==
    /\ server.on /\ server.inbox # <<>>
    /\ LET v == server.vol + Head(server.inbox)
       IN server' = [server EXCEPT !.vol = v, !.inbox = Tail(@),
                                   !.echoes = Append(@, VolumeChanged(JInt(v)))]
    /\ UNCHANGED <<coord, cli, ws, task, pinger, orphans, stopped, storeVars, listeners,
                   first_sent, pending, last>>

NextVolume ==
    \/ \E t \in Targets : server.n < MaxCommands /\ set_volume_absolute(t)
    \/ \E a \in Amounts : server.n < MaxCommands /\ nudge_volume(a)
    \/ speaker_apply
    \/ server.echoes # <<>> /\ recv(Head(server.echoes))

SpecVolume == InitVolume /\ [][NextVolume]_vars

----------------------------------------------------------------------------
(* The command-line client od11_ws.py: run() with one of --set-volume,        *)
(* --nudge, --set-input; the callbacks of its WebSocketApp                    *)

\* want, lines 84-90
Want(input, abs, nudge) ==
    [set_input_id |-> input,
     set_volume_abs |-> IF abs = None THEN None ELSE Some(Clamp(Val(abs))),
     nudge |-> nudge]

\* state, lines 93-103, with the connection (phase) and the 0.6 s close timer
CliState(sid_arg, want) ==
    [phase |-> "open", sid |-> sid_arg, vol |-> None, src |-> None, sources_map |-> <<>>,
     did_send |-> FALSE, waiting_for_state |-> FALSE, closing |-> FALSE, want |-> want]

\* on_message, lines 182-188, with the defaults of main()
CliGroupJoinFrame ==
    [color_index |-> 0, name |-> "guest", realtime_data |-> TRUE, uid |-> "uid-od11ctl",
     action |-> "group_join"]

\* _send, lines 127-131: any message without a sid gets the known one
cli_send(msg, curSid) ==
    IF curSid # None /\ "sid" \notin DOMAIN msg THEN msg @@ [sid |-> Val(curSid)] ELSE msg

\* parse_group_joined, lines 35-48: the last convertible value of a field
\* among the state entries that carry the update
RECURSIVE ParseState(_, _, _, _)
ParseState(items, upd, field, cur) ==
    IF items = <<>> THEN cur
    ELSE LET item == Head(items)
             hit == Has(item, "update", upd) /\ field \in DOMAIN item /\ PyIntOk(item[field])
         IN ParseState(Tail(items), upd, field, IF hit THEN Some(PyInt(item[field])) ELSE cur)

\* send_controls, lines 237-265.  did_send is set on every pass that gets beyond
\* line 238, also on the one that only sets waiting_for_state; without --listen
\* the timer that closes the socket 0.6 s later is started on that pass too.
send_controls(c) ==
    IF c.did_send THEN [cli |-> c, frames |-> <<>>]
    ELSE LET w == c.want
             waits == w.set_volume_abs # None /\ c.vol = None
             f1 == IF w.set_input_id # None THEN <<SetInputFrame(Val(w.set_input_id))>> ELSE <<>>
             f2 == IF w.nudge # None THEN <<ChangeVolumeFrame(Val(w.nudge))>> ELSE <<>>
             f3 == IF w.set_volume_abs # None /\ c.vol # None
                      /\ Val(w.set_volume_abs) - Val(c.vol) # 0
                   THEN <<ChangeVolumeFrame(Val(w.set_volume_abs) - Val(c.vol))>> ELSE <<>>
             fs == f1 \o f2 \o f3
         IN [cli |-> [c EXCEPT !.waiting_for_state = IF waits THEN TRUE ELSE @,
                               !.did_send = TRUE,
                               !.closing = TRUE],
             frames |-> [i \in 1..Len(fs) |-> cli_send(fs[i], c.sid)]]

\* on_message, lines 165-235
cli_handle(c, m) ==
    LET d == m.data
        nothing == [cli |-> c, frames |-> <<>>]
    IN IF m.syntax # "object" THEN nothing
       ELSE IF Has(d, "response", "global_joined")
            THEN [cli |-> c, frames |-> <<cli_send(CliGroupJoinFrame, c.sid)>>]
       ELSE IF Has(d, "response", "speaker_pong") THEN nothing
       ELSE IF Has(d, "response", "group_joined")
            THEN LET items == IF "state" \in DOMAIN d THEN d.state ELSE <<>>
                     smap == IF "sources" \in DOMAIN d /\ SourcesOk(d.sources)
                             THEN DictOf(d.sources, <<>>) ELSE <<>>
                     c1 == [c EXCEPT
                              !.sid = IF "sid" \in DOMAIN d /\ (c.sid = None \/ c.sid = Some(0))
                                      THEN Some(d.sid) ELSE @,
                              !.sources_map = IF smap # <<>> THEN smap ELSE @,
                              !.vol = ParseState(items, "group_volume_changed", "vol", c.vol),
                              !.src = ParseState(items, "group_input_source_changed", "source", c.src)]
                 IN send_controls(c1)
       ELSE IF Has(d, "update", "group_volume_changed") /\ "vol" \in DOMAIN d
            THEN LET c1 == [c EXCEPT !.vol = IF PyIntOk(d.vol) THEN Some(PyInt(d.vol)) ELSE @]
                 IN IF c1.waiting_for_state THEN send_controls(c1)
                    ELSE [cli |-> c1, frames |-> <<>>]
       ELSE IF Has(d, "update", "group_input_source_changed") /\ "source" \in DOMAIN d
            THEN [cli |-> [c EXCEPT !.src = IF PyIntOk(d.source) THEN Some(PyInt(d.source)) ELSE @],
                  frames |-> <<>>]
       ELSE nothing

\* run() up to on_open, lines 84-103 and 151-161: the socket is open and
\* global_join is sent
run(sid_arg, want) ==
    /\ cli.phase = "off"
    /\ cli' = CliState(sid_arg, want)
    /\ last' = Step("run", NoMsg, 0, <<cli_send(GlobalJoinFrame, sid_arg)>>, <<>>, FALSE)
    /\ UNCHANGED <<coord, server, ws, task, pinger, orphans, stopped, storeVars, listeners,
                   first_sent, pending>>

\* on_message called by the WebSocketApp for a text frame
on_message(m) ==
    /\ cli.phase = "open"
    /\ LET r == cli_handle(cli, m)
       IN /\ cli' = r.cli
          /\ last' = Step("on_message", m, 0, r.frames, <<>>, FALSE)
    /\ UNCHANGED <<coord, server, ws, task, pinger, orphans, stopped, storeVars, listeners,
                   first_sent, pending>>

\* line 265: the timer thread calls ws.close(), run_forever returns
close_timer ==
    /\ cli.phase = "open" /\ cli.closing
    /\ cli' = [cli EXCEPT !.phase = "closed"]
    /\ last' = Step("close_timer", NoMsg, 0, <<>>, <<>>, FALSE)
    /\ UNCHANGED <<coord, server, ws, task, pinger, orphans, stopped, storeVars, listeners,
                   first_sent, pending>>

\* the command lines: --set-volume 30, --set-volume 130, --nudge 5, --set-input 3
CliWants ==
    {Want(None, Some(30), None), Want(None, Some(130), None),
     Want(None, None, Some(5)), Want(Some(3), None, None)}

\* --sid absent or given
CliSids == {None, Some(9)}

CliInbound ==
    {GlobalJoinedBare,
     GroupJoined(1, SourcesA, <<>>),
     GroupJoined(1, SourcesA, <<VolItem(JInt(30)), SrcItem(JInt(5))>>),
     VolumeChanged(JInt(0)), VolumeChanged(JInt(30)), VolumeChangedBad,
     SourceChanged(JInt(5)), Pong, NonJson}

NextCli ==
    \/ \E sid_arg \in CliSids, want \in CliWants : run(sid_arg, want)
    \/ \E m \in CliInbound : on_message(m)
    \/ close_timer

SpecCli == Init /\ [][NextCli]_vars

----------------------------------------------------------------------------
(* Properties *)

GroupCommands == {"group_set_input_source", "group_change_volume"}

\* t brought into 0..100
Clamped(t) == IF t <= 0 THEN 0 ELSE IF t >= 100 THEN 100 ELSE t

IsUnsolicited(m, upd, field) ==
    /\ m.syntax = "object"
    /\ "response" \notin DOMAIN m.data
    /\ Has(m.data, "update", upd)
    /\ field \in DOMAIN m.data

OneRoundForAll(rounds, ls) ==
    /\ Len(rounds) = 1
    /\ Len(rounds[1]) = Len(ls)
    /\ \A i \in 1..Len(ls) : rounds[1][i] = 1

\* C1: no group_set_input_source or group_change_volume frame is written to the
\* transport while sid is unassigned.  (The steps that write such a frame leave
\* sid as it was, so sid is read in the state the step ends in.)
C1_NoGroupCommandBeforeSid ==
    \A i \in 1..Len(last.frames) :
        last.frames[i].action \in GroupCommands => sid # None

\* C2: with a known volume v and an open transport, set_volume_absolute(t)
\* writes exactly one group_change_volume frame with amount clamp(t,0,100) - v
\* when that is not 0, and writes nothing when it is 0.  (A known volume means a
\* transport was opened; once it is closed, send_json raises and nothing can be
\* written.)
C2_AbsoluteVolumeDelta ==
    (last.op = "set_volume_absolute" /\ volume # None /\ ws = "open") =>
        LET d == Clamped(last.n) - Val(volume)
        IN IF d = 0 THEN last.frames = <<>>
           ELSE /\ Len(last.frames) = 1
                /\ last.frames[1].action = "group_change_volume"
                /\ last.frames[1].amount = d
                /\ ~last.raised

C2_Witness ==
    /\ last.op = "set_volume_absolute" /\ last.n = 25
    /\ volume = Some(30) /\ ws = "open"
    /\ Len(last.frames) = 1 /\ last.frames[1].amount = -5

\* C3 as stated: a set_volume_absolute(t) called with an unknown volume goes on
\* from a baseline of 0: it writes one group_change_volume with amount
\* clamp(t,0,100), or nothing when that is 0.
C3_ZeroBaseline ==
    (last.op = "set_volume_absolute_resume" /\ ws = "open") =>
        LET d == Clamped(last.n)
        IN IF d = 0 THEN last.frames = <<>>
           ELSE /\ Len(last.frames) = 1
                /\ last.frames[1].action = "group_change_volume"
                /\ last.frames[1].amount = d

\* C3 amended: a set_volume_absolute(t) called with an unknown volume does not
\* wait for a volume report; after its one zero-timeout wait it takes as baseline
\* the volume the store holds then (0 if still unknown) and writes one
\* group_change_volume with amount clamp(t,0,100) - baseline, or nothing when
\* that is 0.
C3_BaselineAfterYield ==
    /\ pending # None => ENABLED set_volume_absolute_resume
    /\ (last.op = "set_volume_absolute_resume" /\ ws = "open") =>
        LET base == IF volume = None THEN 0 ELSE Val(volume)
            d == Clamped(last.n) - base
        IN IF d = 0 THEN last.frames = <<>>
           ELSE /\ Len(last.frames) = 1
                /\ last.frames[1].action = "group_change_volume"
                /\ last.frames[1].amount = d

C3_Witness ==
    /\ last.op = "set_volume_absolute_resume" /\ last.n = 130
    /\ volume = None /\ ws = "open"
    /\ Len(last.frames) = 1 /\ last.frames[1].amount = 100

\* C4: an unsolicited group_volume_changed (group_input_source_changed) frame
\* carrying an integer vol (source) leaves that value in the store's volume
\* (source_id), and its handling runs exactly one notification round that calls
\* every registered listener once; the round is part of the frame's handling, so
\* it is over before the next frame is taken.
C4_UpdateAppliedAndNotifiedOnce ==
    /\ (last.op = "recv" /\ IsUnsolicited(last.msg, "group_volume_changed", "vol")
            /\ last.msg.data.vol.ty = "int") =>
          /\ volume = Some(last.msg.data.vol.n)
          /\ OneRoundForAll(last.rounds, listeners)
    /\ (last.op = "recv" /\ IsUnsolicited(last.msg, "group_input_source_changed", "source")
            /\ last.msg.data.source.ty = "int") =>
          /\ source_id = Some(last.msg.data.source.n)
          /\ OneRoundForAll(last.rounds, listeners)

C4_Witness ==
    /\ last.op = "recv" /\ last.msg = VolumeChanged(JInt(30))
    /\ volume = Some(30)
    /\ Len(listeners) = 2 /\ last.rounds = << <<1, 1>> >>

\* the state entries of a group_joined that carry the update upd
EntriesOf(S, upd) == {i \in 1..Len(S) : Has(S[i], "update", upd)}
LastOf(I) == CHOOSE i \in I : \A j \in I : j <= i

WellFormedGroupJoined(m) ==
    /\ m.syntax = "object"
    /\ Has(m.data, "response", "group_joined")
    /\ {"sid", "sources", "state"} \subseteq DOMAIN m.data
    /\ \A i \in 1..Len(m.data.sources) : DOMAIN m.data.sources[i] = {"id", "name"}
    /\ \A i \in EntriesOf(m.data.state, "group_volume_changed") :
          "vol" \in DOMAIN m.data.state[i] /\ m.data.state[i].vol.ty = "int"
    /\ \A i \in EntriesOf(m.data.state, "group_input_source_changed") :
          "source" \in DOMAIN m.data.state[i] /\ m.data.state[i].source.ty = "int"

\* C5: after a group_joined with sid s, sources L and state list S is handled,
\* sid is s, the source map holds exactly the id/name pairs of L, volume is the
\* vol of the last group_volume_changed entry of S and source_id the source of
\* the last group_input_source_changed entry (each unchanged without such an
\* entry), and one notification round has run.
C5_GroupJoinedSnapshot ==
    [][(last'.op = "recv" /\ WellFormedGroupJoined(last'.msg)) =>
        LET d == last'.msg.data
            vols == EntriesOf(d.state, "group_volume_changed")
            srcs == EntriesOf(d.state, "group_input_source_changed")
        IN /\ sid' = Some(d.sid)
           /\ Len(sources') = Len(d.sources)
           /\ {sources'[i] : i \in 1..Len(sources')} = {d.sources[i] : i \in 1..Len(d.sources)}
           /\ volume' = IF vols = {} THEN volume ELSE Some(d.state[LastOf(vols)].vol.n)
           /\ source_id' = IF srcs = {} THEN source_id ELSE Some(d.state[LastOf(srcs)].source.n)
           /\ OneRoundForAll(last'.rounds, listeners)
      ]_vars

C5_Witness ==
    /\ last.op = "recv"
    /\ last.msg = GroupJoined(2, SourcesB, <<SrcItem(JInt(0)), VolItem(JInt(30)),
                                             SrcItem(JInt(5)), VolItem(JInt(0))>>)
    /\ sid = Some(2) /\ sources = SourcesB /\ volume = Some(0) /\ source_id = Some(5)
    /\ Len(listeners) = 2 /\ last.rounds = << <<1, 1>> >>

IsResponse(m, r) == m.syntax = "object" /\ Has(m.data, "response", r)

\* C6: a group_join is written only in the handling of a global_joined response,
\* and the handling of each global_joined writes exactly one; it is written
\* within that handling, so before any later frame is taken, and none is written
\* before a global_joined has been received.
C6_GroupJoinAnswersGlobalJoined ==
    /\ (last.op = "recv" /\ IsResponse(last.msg, "global_joined")) =>
          /\ Len(last.frames) = 1
          /\ last.frames[1].action = "group_join"
    /\ \A i \in 1..Len(last.frames) :
          last.frames[i].action = "group_join" =>
              last.op = "recv" /\ IsResponse(last.msg, "global_joined")

C6_Witness ==
    /\ last.op = "recv" /\ last.msg = GlobalJoinedFull
    /\ Len(last.frames) = 1 /\ last.frames[1].action = "group_join"
    /\ mac = Some("m1")

\* C7: the first frame written to a transport that connect() has opened is the
\* global_join with the configured protocol versions; connect() writes exactly
\* that one frame, and no other step writes a global_join.
C7_GlobalJoinFirst ==
    LET gj == [protocol_major_version |-> DEFAULT_PROTOCOL_MAJOR,
               protocol_minor_version |-> DEFAULT_PROTOCOL_MINOR,
               action |-> "global_join"]
    IN /\ ws # "none" => first_sent = Some(gj)
       /\ last.op = "connect" => last.frames = <<gj>>
       /\ \A i \in 1..Len(last.frames) :
             last.frames[i].action = "global_join" => last.op = "connect"

C7_Witness ==
    /\ ws = "open" /\ last.op = "ping_tick"
    /\ Len(last.frames) = 1 /\ last.frames[1].action = "speaker_ping"
    /\ first_sent # None /\ Val(first_sent).action = "global_join"

\* C8: frames out of sequence are ignored.  A group_joined taken right after
\* connect(), before any global_joined, and a volume or source update taken
\* while no group_joined has assigned a sid, leave the store as it was and notify
\* nobody; a global_joined or group_joined taken when the session is set up
\* leaves the store as it was.
C8_OutOfSequenceIgnored ==
    [][/\ (last.op = "connect" /\ last'.op = "recv" /\ IsResponse(last'.msg, "group_joined")) =>
            UNCHANGED storeVars /\ last'.rounds = <<>>
       /\ (sid = None /\ last'.op = "recv"
              /\ (\/ IsUnsolicited(last'.msg, "group_volume_changed", "vol")
                  \/ IsUnsolicited(last'.msg, "group_input_source_changed", "source"))) =>
            UNCHANGED storeVars /\ last'.rounds = <<>>
       /\ (sid # None /\ last'.op = "recv"
              /\ (IsResponse(last'.msg, "global_joined") \/ IsResponse(last'.msg, "group_joined"))) =>
            UNCHANGED storeVars
      ]_vars

Malformed == {JsonArray, VolumeChangedBad, GroupJoinedNoId, GroupJoinedBadVol}

\* C9: a frame that is valid JSON but malformed for the protocol is dropped as a
\* whole: the store is as it was, and the receive loop keeps running.
C9_MalformedDropped ==
    [][(last'.op = "recv" /\ last'.msg \in Malformed) =>
            UNCHANGED storeVars /\ task' = "running"
      ]_vars

\* C10: a payload that is not JSON is discarded: the store is as it was, no
\* listener is called, no frame is written, and the receive loop goes on on the
\* same transport.
C10_NonJsonDiscarded ==
    [][(last'.op = "recv" /\ last'.msg = NonJson) =>
            /\ UNCHANGED storeVars
            /\ last'.rounds = <<>>
            /\ last'.frames = <<>>
            /\ first_sent' = first_sent
            /\ task' = "running" /\ ws' = "open"
      ]_vars

C10_Witness ==
    /\ last.op = "recv" /\ last.msg = NonJson
    /\ task = "running" /\ ws = "open"
    /\ sid # None /\ volume # None /\ Len(listeners) > 0

\* C11: in a notification round in which any of the registered listeners raise,
\* every registered listener, raising or not, is called exactly once; the store
\* holds the values the frame wrote, and the receive loop is still running on
\* the open transport, ready for the next frame.
C11_RaisingListenerIsolated ==
    /\ (last.op = "recv" /\ IsUnsolicited(last.msg, "group_volume_changed", "vol")) =>
          /\ OneRoundForAll(last.rounds, listeners)
          /\ volume = Some(last.msg.data.vol.n)
          /\ task = "running" /\ ws = "open" /\ ~last.raised
    /\ (last.op = "recv" /\ IsUnsolicited(last.msg, "group_input_source_changed", "source")) =>
          /\ OneRoundForAll(last.rounds, listeners)
          /\ source_id = Some(last.msg.data.source.n)
          /\ task = "running" /\ ws = "open" /\ ~last.raised
    /\ (last.op = "recv" /\ IsResponse(last.msg, "group_joined")) =>
          /\ OneRoundForAll(last.rounds, listeners)
          /\ sid = Some(last.msg.data.sid)
          /\ Len(sources) = Len(last.msg.data.sources)
          /\ task = "running" /\ ws = "open" /\ ~last.raised

C11_Witness ==
    /\ last.op = "recv" /\ last.msg = VolumeChanged(JInt(30))
    /\ listeners = <<"raises", "ok">>
    /\ last.rounds = << <<1, 1>> >>
    /\ volume = Some(30) /\ task = "running"

\* C12: every handled frame that changes a field of the store (sid, volume,
\* source_id, the source map, mac, ssid, wifi_quality, revision) is followed, in
\* its handling, by a notification round that calls every registered listener.
C12_NotifiedAfterChange ==
    [][(last'.op = "recv" /\ storeVars' # storeVars) =>
            OneRoundForAll(last'.rounds, listeners)
      ]_vars

Commands == {"set_input", "nudge_volume", "set_volume_absolute", "set_volume_absolute_resume"}

\* C13: set_input, nudge_volume and set_volume_absolute leave sid, volume,
\* source_id, the source map and the metadata as they were; a step that changes
\* any of them is the handling of an inbound frame.  So after a volume command
\* the store still shows the old volume until a frame from the server is handled.
C13_CommandsLeaveStore ==
    [][/\ last'.op \in Commands => UNCHANGED storeVars
       /\ storeVars' # storeVars => last'.op = "recv"
      ]_vars

C13_Witness ==
    /\ last.op = "nudge_volume" /\ last.n = 5
    /\ Len(last.frames) = 1 /\ last.frames[1].amount = 5
    /\ volume = Some(30)

\* C14: once sid is assigned, every group_set_input_source and
\* group_change_volume frame handed to the transport carries a sid: the store's
\* sid at that moment when the message had none, and the message's own sid,
\* untouched, when it had one.  global_join and speaker_ping frames get no sid.
\* Every other field of a message goes out as it came in.
C14_SidStamp ==
    /\ (last.op \in {"set_input", "nudge_volume"} /\ sid # None /\ ~last.raised) =>
          /\ Len(last.frames) = 1
          /\ "sid" \in DOMAIN last.frames[1]
          /\ last.frames[1].sid = Val(sid)
    /\ (last.op \in {"connect", "ping_tick"}) =>
          \A i \in 1..Len(last.frames) : "sid" \notin DOMAIN last.frames[i]
    /\ (last.op = "_send" /\ ~last.raised) =>
          /\ Len(last.frames) = 1
          /\ LET o == last.obj
                 f == last.frames[1]
                 act == IF "action" \in DOMAIN o THEN o.action ELSE ""
             IN /\ \A k \in DOMAIN o : k \in DOMAIN f /\ f[k] = o[k]
                /\ DOMAIN f \subseteq DOMAIN o \cup {"sid"}
                /\ (act \in GroupCommands /\ sid # None) =>
                      /\ "sid" \in DOMAIN f
                      /\ "sid" \notin DOMAIN o => f.sid = Val(sid)
                /\ (act \in {"global_join", "speaker_ping"} /\ "sid" \notin DOMAIN o) =>
                      "sid" \notin DOMAIN f

C14_Witness ==
    /\ last.op = "_send" /\ last.obj = [action |-> "group_set_input_source", source |-> 3, sid |-> 9]
    /\ sid = Some(1)
    /\ last.frames = <<[action |-> "group_set_input_source", source |-> 3, sid |-> 9]>>

C16_CloseStopsEverything ==
    /\ [](last.op = "close" =>
            stopped /\ ws # "open" /\ task # "running" /\ pinger # "running")
    /\ [][(stopped /\ ws # "open" /\ ws' # "open") =>
            /\ UNCHANGED storeVars
            /\ last'.rounds = <<>>
            /\ last'.frames = <<>>
            /\ last'.op # "recv"
         ]_vars
    /\ [][(last.op = "close" /\ last'.op = "close") => UNCHANGED vars]_vars
    /\ [][(ws = "closed" /\ last'.op = "close") =>
            UNCHANGED <<ws, task, storeVars, listeners, first_sent>>
         ]_vars

C16_Witness ==
    /\ last.op = "ping_tick" /\ last.frames = <<>>
    /\ stopped /\ ws = "closed" /\ task = "done" /\ pinger = "done" /\ orphans = 0
    /\ sid # None /\ volume # None /\ Len(listeners) > 0

\* the characters of a token that _simplify keeps
KeptChars(q) == {i \in 1..Len(q) : IsAlnum(q[i])}

\* the number written by the digits of a token, other characters skipped
RECURSIVE NumberOf(_)
NumberOf(q) ==
    IF q = <<>> THEN 0
    ELSE LET front == SubSeq(q, 1, Len(q) - 1)
             ch == q[Len(q)]
         IN IF ch \in Range(DigitChars) THEN 10 * NumberOf(front) + DigitVal(ch)
            ELSE NumberOf(front)

IsNumericToken(q) ==
    /\ KeptChars(q) # {}
    /\ \A i \in KeptChars(q) : q[i] \in Range(DigitChars)

\* C17: a token whose letters and digits are all digits (and that has at least
\* one) resolves to the number they write, whatever the live source map is.
C17_NumericBypass ==
    (last.op = "resolve" /\ IsNumericToken(last.query)) =>
        /\ last.res.ok
        /\ last.res.id = NumberOf(last.query)

C17_Witness ==
    /\ last.op = "resolve" /\ last.query = <<"3">>
    /\ sources = <<Entry(4, N_Line3), Entry(7, N_OD11)>>
    /\ last.res.ok /\ last.res.id = 3

MapAirPlayBTSpeaker == <<Entry(0, N_AirPlay), Entry(5, N_BTSpeaker)>>

\* C18 as stated: "bt" resolves to 5 from the canonical table when the live map
\* is empty, and with the live map {0: "AirPlay", 5: "BT Speaker"} it resolves to
\* 5 because a live name matches in the prefix/substring step.
C18_BtViaLiveName ==
    /\ (last.op = "resolve" /\ last.query = <<"b", "t">> /\ sources = <<>>) =>
          last.res = Resolved(5, "canonical")
    /\ (last.op = "resolve" /\ last.query = <<"b", "t">> /\ sources = MapAirPlayBTSpeaker) =>
          last.res = Resolved(5, "friendly")

\* C18 amended: "bt" resolves to 5 from the canonical table both when the live
\* map is empty and with the live map {0: "AirPlay", 5: "BT Speaker"}: the
\* alias target "bluetooth" is compared with the live names, and "btspeaker"
\* neither equals, starts with, nor contains it.
C18_BtViaCanonical ==
    (last.op = "resolve" /\ last.query = <<"b", "t">>
        /\ sources \in {<<>>, MapAirPlayBTSpeaker}) =>
          /\ last.res = Resolved(5, "canonical")
          /\ \A i \in DOMAIN sources :
                ~contains(_simplify(sources[i].name), W_bluetooth)

C18_Witness ==
    /\ last.op = "resolve" /\ last.query = <<"b", "t">>
    /\ sources = MapAirPlayBTSpeaker
    /\ last.res.ok /\ last.res.id = 5 /\ last.res.via = "canonical"

\* the alias-expanded, normalised token
Target(q) == TableGet(SOURCE_ALIASES, _simplify(q), _simplify(q))

\* the entries of a live map whose normalised name equals, starts with or
\* contains t (the first two are cases of the third)
NamesMatching(srcs, t) == {i \in DOMAIN srcs : contains(_simplify(srcs[i].name), t)}

Keys(srcs) == {srcs[i].id : i \in DOMAIN srcs}

\* C19 as stated: whenever a name of the live map matches the alias-expanded,
\* normalised token exactly, by prefix or by substring, the resolver returns a
\* key of the live map; the canonical table decides only when no name matches.
C19_LiveMapWins ==
    (last.op = "resolve") =>
        /\ NamesMatching(sources, Target(last.query)) # {} =>
              last.res.ok /\ last.res.id \in Keys(sources)
        /\ last.res.via = "canonical" =>
              NamesMatching(sources, Target(last.query)) = {}

\* C19 amended: for a token that is not numeric (C17), whenever a name of the
\* live map matches the alias-expanded, normalised token exactly, by prefix or
\* by substring, the resolver returns a key of the live map, also when the
\* canonical table has another ID for the token ({7: "Bluetooth"} resolves
\* "bluetooth" to 7); the canonical table decides only when no name matches.
\* A numeric token resolves to its number, whether or not a name contains it.
C19_LiveMapWinsUnlessNumeric ==
    (last.op = "resolve" /\ ~IsNumericToken(last.query)) =>
        /\ NamesMatching(sources, Target(last.query)) # {} =>
              last.res.ok /\ last.res.id \in Keys(sources)
        /\ last.res.via = "canonical" =>
              NamesMatching(sources, Target(last.query)) = {}
        /\ (sources = <<Entry(7, N_Bluetooth)>> /\ last.query = W_bluetooth) =>
              last.res.id = 7

C19_Witness ==
    /\ last.op = "resolve" /\ last.query = W_bluetooth
    /\ sources = <<Entry(7, N_Bluetooth)>>
    /\ last.res.ok /\ last.res.id = 7

NamesEqual(srcs, t) == {i \in DOMAIN srcs : _simplify(srcs[i].name) = t}
NamesStarting(srcs, t) == {i \in DOMAIN srcs : startswith(_simplify(srcs[i].name), t)}
Earliest(I) == CHOOSE i \in I : \A j \in I : i <= j
IdsAt(srcs, I) == {srcs[i].id : i \in I}

\* C20 as stated: the chain exact -> prefix -> substring -> canonical is strict
\* over the whole live map: an entry whose normalised name equals the target
\* wins over entries that match by prefix or substring, and an entry whose name
\* starts with the target wins over entries that merely contain it, wherever
\* the entries stand in the map.
C20_StrictChain ==
    (last.op = "resolve" /\ ~IsNumericToken(last.query)) =>
        LET t == Target(last.query)
        IN /\ NamesEqual(sources, t) # {} =>
                 last.res.id \in IdsAt(sources, NamesEqual(sources, t))
           /\ (NamesEqual(sources, t) = {} /\ NamesStarting(sources, t) # {}) =>
                 last.res.id \in IdsAt(sources, NamesStarting(sources, t))

\* C20 amended: an entry whose normalised name equals the target wins over every
\* entry that matches by prefix or substring, wherever it stands in the map (the
\* earliest such entry, if there are several).  Without an exact match, prefix
\* and substring are one step: the earliest entry, in the map's iteration order,
\* whose name starts with or contains the target wins, so a name that merely
\* contains the target wins over a later name that starts with it.  The
\* canonical table is reached only when no name matches.
C20_ExactThenFirstMatch ==
    (last.op = "resolve" /\ ~IsNumericToken(last.query)) =>
        LET t == Target(last.query)
            E == NamesEqual(sources, t)
            M == NamesMatching(sources, t)
        IN /\ E # {} => last.res = Resolved(sources[Earliest(E)].id, "exact")
           /\ (E = {} /\ M # {}) => last.res = Resolved(sources[Earliest(M)].id, "friendly")
           /\ M = {} => last.res.via \in {"canonical", "ValueError"}

C20_Witness ==
    /\ last.op = "resolve" /\ last.query = W_bluetooth
    /\ sources = <<Entry(1, N_MyBluetooth), Entry(2, N_Bluetooth2)>>
    /\ last.res.ok /\ last.res.id = 1

ServiceOps == {"svc_set_input", "_svc_set_input_key"}

W_xyz == <<"x", "y", "z">>

\* a token that is no number, whose alias-expanded normal form is no key of the
\* canonical table and is found in no name of the map
UnknownToken(srcs, q) ==
    /\ ~IsNumericToken(q)
    /\ NamesMatching(srcs, Target(q)) = {}
    /\ ~TableHas(CANONICAL_SOURCES, Target(q))

\* C21: a token that is not numeric, matches no name of the live map and is
\* neither an alias nor a canonical key ("xyz" against any map) makes the
\* resolver fail with the unknown-source error, which names the token as the
\* resolver was given it; in the set-input services the failure comes before any
\* command: no group_set_input_source frame is written and the client's state,
\* its transport and its loops are as they were.
C21_UnknownTokenFailsBeforeCommand ==
    [][(last'.op \in ServiceOps /\ (UnknownToken(CoordSources, last'.query) \/ last'.query = W_xyz)) =>
          /\ ~last'.res.ok
          /\ last'.raised
          /\ last'.error = Some(last'.query)
          /\ last'.frames = <<>>
          /\ UNCHANGED <<storeVars, ws, task, pinger, orphans, stopped, first_sent, pending>>]_vars

C21_Witness ==
    /\ last.op = "svc_set_input" /\ last.source = T_XYZ /\ last.query = W_xyz
    /\ CoordSources = MapAirPlayBTSpeaker
    /\ last.raised /\ last.frames = <<>> /\ last.error = Some(W_xyz)

\* C22: the command-line client, asked for an absolute volume and not knowing
\* the volume when group_joined has been handled, waits; on the first
\* group_volume_changed update after that, carrying the volume v, it writes
\* exactly one group_change_volume whose amount is the target minus v (and none
\* when that is 0): the request is not lost.
C22_DeferredVolumeSent ==
    [][(/\ last'.op = "on_message"
        /\ cli.waiting_for_state /\ cli.vol = None
        /\ IsUnsolicited(last'.msg, "group_volume_changed", "vol")
        /\ PyIntOk(last'.msg.data.vol)) =>
          LET delta == Val(cli.want.set_volume_abs) - PyInt(last'.msg.data.vol)
          IN last'.frames = IF delta = 0 THEN <<>>
                            ELSE <<cli_send(ChangeVolumeFrame(delta), cli.sid)>>]_vars

GroupJoinFields == {"color_index", "name", "realtime_data", "uid", "action"}

\* C23: every group_join frame the client writes has exactly the fields
\* color_index, name, realtime_data, uid and action, and no sid, in every
\* reachable state, also when the global_joined it answers arrives after a sid
\* has been assigned.
C23_GroupJoinShape ==
    \A i \in 1..Len(last.frames) :
        Has(last.frames[i], "action", "group_join") =>
            DOMAIN last.frames[i] = GroupJoinFields

\* C24: a source resolution made after the receive loop has handled a
\* group_joined uses the source map that frame delivered, the store's current
\* map, under every interleaving of frame handling, coordinator refreshes and
\* service calls; never an older or empty map the store has already replaced.
C24_ResolvesAgainstCurrentMap ==
    (last.op \in ServiceOps /\ sid # None) => last.map = sources

RefreshReturns == {"refresh_notified", "refresh_timeout"}

\* C25: a snapshot refresh of the coordinator always ends.  A refresh that waits
\* returns as soon as a listener notification has set the event after the
\* refresh began, and at the 5.0 s ceiling otherwise, also when no frame arrives
\* and when the transport is closed; what it returns is the client's sid, volume,
\* source id, source map and metadata of that moment.
C25_RefreshTerminates ==
    /\ (coord.wait = "waiting") ~> (coord.wait = "none")
    /\ [](coord.wait = "waiting" =>
             IF coord.event THEN ENABLED refresh_notified ELSE ENABLED refresh_timeout)
    /\ [][last'.op \in RefreshReturns =>
             /\ coord.wait = "waiting" /\ coord'.wait = "none"
             /\ coord'.data = Some(Store')
             /\ last'.op = "refresh_notified" <=> coord.event]_vars

C25_Witness ==
    /\ last.op = "refresh_timeout"
    /\ ws = "closed" /\ sid # None
    /\ coord.wait = "none" /\ coord.data = Some(Store)

\* nothing the client has sent is still on its way to the speaker or back
Quiet(srv) == srv.inbox = <<>> /\ srv.echoes = <<>>

\* C26: with a speaker that holds a volume s, adds the amount of each
\* group_change_volume it receives and echoes the sum as group_volume_changed:
\* when set_volume_absolute(t) is called while the store's volume is s and no
\* earlier volume command is un-echoed, the one command sent carries
\* clamp(t, 0, 100) - s (none when that is 0), and once its echo has been
\* handled the speaker's volume and the store's volume are both clamp(t, 0, 100).
C26_AbsoluteVolumeReached ==
    /\ [][(/\ last'.op = "set_volume_absolute"
           /\ Quiet(server) /\ volume = Some(server.vol)) =>
             IF Clamped(last'.n) = server.vol
             THEN last'.frames = <<>> /\ server' = server
             ELSE server'.inbox = <<Clamped(last'.n) - server.vol>>]_vars
    /\ [][(/\ last.op = "set_volume_absolute" /\ last.frames # <<>>
           /\ last'.op = "recv"
           /\ server.inbox = <<>> /\ Len(server.echoes) = 1
           /\ volume = Some(server.vol - last.frames[1].amount)) =>
             /\ volume' = Some(Clamped(last.n))
             /\ server'.vol = Clamped(last.n)
             /\ Quiet(server')]_vars

C26_Witness ==
    /\ last.op = "recv"
    /\ server.n = 1 /\ Quiet(server)
    /\ server.vol = 100 /\ volume = Some(100)

\* C27: the stop flag set by close() is never cleared, and once close() has
\* been called the client writes no speaker_ping again, also after a later
\* connect() whose handshake completes.
C27_NoPingAfterClose ==
    /\ [][stopped => stopped']_vars
    /\ [](stopped => \A i \in 1..Len(last.frames) :
                        ~Has(last.frames[i], "action", "speaker_ping"))

\* C28: sid is never reset to unassigned, not by close(), not by the loss of
\* the transport and not by a new connect(); so once a group_joined has been
\* handled, every group-scoped frame written later, also on a new connection
\* before its own group_joined arrives, carries the sid stored last, which may be
\* the one of the session before.
C28_SidKept ==
    /\ [][sid # None => sid' # None]_vars
    /\ [][last'.op \in {"close", "transport_lost", "connect"} => sid' = sid]_vars
    /\ [](sid # None =>
             \A i \in 1..Len(last.frames) :
                 StartsWithGroup(last.frames[i]) =>
                     /\ "sid" \in DOMAIN last.frames[i]
                     /\ last.frames[i].sid = Val(sid))

C28_Witness ==
    /\ last.op = "set_input" /\ ~last.raised
    /\ orphans = 1 /\ stopped
    /\ sid = Some(1) /\ last.frames[1].sid = 1

EmptiesOut(q) == KeptChars(q) = {}

\* C29 as stated: a token without a letter or digit ("" or "--") does not fail
\* when the live map is non-empty: the resolver returns the ID of the first
\* entry in the map's iteration order; it fails with the unknown-source error
\* only when the live map is empty.
C29_EmptyTokenFirstEntry ==
    (last.op = "resolve" /\ EmptiesOut(last.query)) =>
        IF sources = <<>> THEN ~last.res.ok
        ELSE last.res.ok /\ last.res.id = sources[1].id

\* C29 amended: a token without a letter or digit ("" or "--") does not fail
\* when the live map is non-empty.  When a name of the map has no letter or
\* digit either, the exact pass returns the ID of the first such entry, wherever
\* it stands; otherwise the prefix test succeeds for every name and the resolver
\* returns the ID of the first entry in the map's iteration order.  It fails
\* with the unknown-source error only when the live map is empty.
C29_EmptyTokenBlankNameOrFirstEntry ==
    (last.op = "resolve" /\ EmptiesOut(last.query)) =>
        LET B == {i \in DOMAIN sources : EmptiesOut(sources[i].name)}
        IN IF sources = <<>> THEN ~last.res.ok /\ last.res.via = "ValueError"
           ELSE /\ last.res.ok
                /\ last.res.id = IF B # {} THEN sources[Earliest(B)].id ELSE sources[1].id

C29_Witness ==
    /\ last.op = "resolve" /\ last.query = <<"-", "-">>
    /\ sources = <<Entry(3, N_LineIn), Entry(9, N_Dash)>>
    /\ last.res.ok /\ last.res.id = 9

====
